---- MODULE Spec2Model ----
(***************************************************************************)
(* url-monitoring: the two monitoring scripts of the repository,           *)
(* url-monitor.py (v1.0.3) and monitor_urls.py (v1.0.0).                   *)
(*                                                                         *)
(* One invocation of a script is one process: the module body loads        *)
(* failures.json into the global `failures`, monitor() then walks the      *)
(* target list, probing each entry, updating the entry's debounce state    *)
(* in memory and dispatching notifications, and finally save_failures      *)
(* rewrites failures.json.  The external scheduler starts the next         *)
(* invocation after the previous one has ended.                            *)
(***************************************************************************)
EXTENDS Integers, Sequences, FiniteSets, TLC

VARIABLES
    script,     \* which of the two scripts the scheduler runs
    urls,       \* the target list returned by load_urls()
    file,       \* FAILURE_FILE on disk
    failures,   \* the global `failures` of the running process
    pc,         \* position of the process: "idle", "loop", "dump"
    idx,        \* index (1-based) of the next entry of `for entry in urls`
    exit,       \* how the last invocation ended, and the uncaught exception
    file0,      \* observation: FAILURE_FILE when the invocation started
    last,       \* observation: the last loop iteration (prior state, intent)
    streak,     \* observation: consecutive failing cycles per URL; this and
                \* the two counters below are kept while `clean` holds
    downs,      \* observation: down notifications in the current streak
    ups,        \* observation: up notifications in the current run of successes
    sent,       \* observation: per URL, the kind of the notification dispatched
                \* last since the store was empty ("none" before the first)
    lost,       \* observation: per URL, the notification of the current streak
                \* (or recovery) whose webhook call failed; kept while `clean`
    clean,      \* observation: empty store at first, every cycle completed
    probe,      \* observation: one call of check_url on its own, with the
                \* responses the network held ready and what the call returned
    race,       \* two invocations the scheduler lets overlap on one
                \* failures.json: position, `failures` and loop index of each
    pair        \* the two scripts run side by side on the same targets and
                \* the same outcomes: `failures` of each, the shared loop
                \* index, and what each dispatched in the iteration just made

vars == <<script, urls, file, failures, pc, idx, exit, file0, last,
          streak, downs, ups, sent, lost, clean, probe, race, pair>>

-----------------------------------------------------------------------------
(* Program constants *)

FAILURE_THRESHOLD == 5

RETRY_COUNT == 2

None == "None"

UM == "url-monitor.py"

MU == "monitor_urls.py"

Scripts == {UM, MU}

(* Bounds *)

\* no failing cycle is taken once a stored count or a streak has reached it
MaxFailures == 7

\* the counters of dispatched notifications saturate here
MaxNotes == 2

-----------------------------------------------------------------------------
(* Targets *)

PUBLIC_URL == "https://status.example.org/health"

LAN_URL == "https://192.168.178.20/"

NOHOST_URL == "status.example.org/health"

STALE_URL == "https://retired.example.org/"

URLS == {PUBLIC_URL, LAN_URL, NOHOST_URL, STALE_URL}

KEYWORD == "online"

\* urlparse(url).hostname
Hostname(url) ==
    CASE url = PUBLIC_URL -> "status.example.org"
      [] url = LAN_URL    -> "192.168.178.20"
      [] url = STALE_URL  -> "retired.example.org"
      [] OTHER            -> None

Entry(url, keyword) == [url |-> url, keyword |-> keyword]

\* the lists load_urls() returns for the configurations examined
TargetLists ==
    { <<Entry(PUBLIC_URL, KEYWORD)>>,
      <<Entry(PUBLIC_URL, None), Entry(LAN_URL, KEYWORD)>>,
      <<Entry(PUBLIC_URL, KEYWORD), Entry(PUBLIC_URL, None)>>,
      <<Entry(NOHOST_URL, None), Entry(PUBLIC_URL, None)>>,
      <<Entry(PUBLIC_URL, None), Entry(NOHOST_URL, None)>> }

-----------------------------------------------------------------------------
(* The store: failures.json and the mapping in memory *)

EmptyMap == <<>>

\* an assignment that replaces the mapping by the one entry assigned
Put_alone(m, k, v) == [x \in {k} |-> v]

Put(m, k, v) == [x \in (DOMAIN m) \cup {k} |-> IF x = k THEN v ELSE m[x]]

\* a parsed JSON document: an object (dict) or anything else (list, null, ...)
Dict(m) == [isdict |-> TRUE, map |-> m]

NonDict == [isdict |-> FALSE, map |-> EmptyMap]

\* state is "missing", "unparsable", "unreadable" or "json"
File(state, value) == [state |-> state, value |-> value]

\* a first entry that already carries the down flag
um_default_flagged ==
    [failures |-> 0, notified_down |-> TRUE, notified_up |-> FALSE]

\* url-monitor.py line 140: the entry a URL gets when it is seen first
um_default == [failures |-> 0, notified_down |-> FALSE, notified_up |-> FALSE]

mu_default == [failures |-> 0, notified |-> FALSE]

um_entry(n, d, u) == [failures |-> n, notified_down |-> d, notified_up |-> u]

mu_entry(n, d) == [failures |-> n, notified |-> d]

-----------------------------------------------------------------------------
(* Exceptions: the type of an uncaught exception and the function raising it *)

Exc(type, where) == [type |-> type, where |-> where]

NoExc == Exc(None, None)

-----------------------------------------------------------------------------
(* load_failures *)

\* load_failures with the JSONDecodeError of json.load left uncaught
um_load_failures_nocatch(f) ==
    IF f.state = "missing" THEN [raised |-> NoExc, value |-> Dict(EmptyMap)]
    ELSE IF f.state = "unparsable"
         THEN [raised |-> Exc("JSONDecodeError", "load_failures"),
               value |-> Dict(EmptyMap)]
         ELSE IF f.state = "unreadable"
              THEN [raised |-> NoExc, value |-> Dict(EmptyMap)]
              ELSE [raised |-> NoExc, value |-> f.value]

\* url-monitor.py: JSONDecodeError and IOError are caught, the store is reset
um_load_failures(f) ==
    IF f.state = "missing" THEN [raised |-> NoExc, value |-> Dict(EmptyMap)]
    ELSE IF f.state \in {"unparsable", "unreadable"}
         THEN [raised |-> NoExc, value |-> Dict(EmptyMap)]
         ELSE [raised |-> NoExc, value |-> f.value]

\* monitor_urls.py: only JSONDecodeError is caught
mu_load_failures(f) ==
    IF f.state = "missing" THEN [raised |-> NoExc, value |-> Dict(EmptyMap)]
    ELSE IF f.state = "unparsable"
         THEN [raised |-> NoExc, value |-> Dict(EmptyMap)]
         ELSE IF f.state = "unreadable"
              THEN [raised |-> Exc("IOError", "load_failures"),
                    value |-> Dict(EmptyMap)]
              ELSE [raised |-> NoExc, value |-> f.value]

load_failures(s, f) == IF s = UM THEN um_load_failures(f) ELSE mu_load_failures(f)

-----------------------------------------------------------------------------
(* The probe: check_url *)

\* bodies a server may return: empty, a page showing the keyword (in other
\* case, inside markup), a page without it
Contents == {"", "<b>Online</b>", "<p>maintenance</p>"}

Response(code, text) == [exc |-> None, status_code |-> code, text |-> text]

Raises(e) == [exc |-> e, status_code |-> 0, text |-> None]

\* what one requests.get(url, timeout=TIMEOUT, verify=verify_ssl) can do
AttemptResults(url, verify) ==
    IF Hostname(url) = None
    THEN {Raises("MissingSchema")}
    ELSE {Response(200, t) : t \in Contents}
         \cup {Response(401, "<p>maintenance</p>"), Response(503, "")}
         \cup {Raises("Timeout"), Raises("ConnectionError")}
         \cup (IF verify THEN {Raises("SSLError")} ELSE {})

\* requests.RequestException and its subclasses
RequestException == {"MissingSchema", "Timeout", "ConnectionError", "SSLError"}

\* url-monitor.py: `hostname and hostname.startswith("192.168.178.")`
is_internal_ip(url) ==
    Hostname(url) # None /\ Hostname(url) \in {"192.168.178.20"}

\* monitor_urls.py: hostname.startswith(...) on the hostname, None included
is_local_ip(url) ==
    IF Hostname(url) = None
    THEN [raised |-> Exc("AttributeError", "is_local_ip"), value |-> FALSE]
    ELSE [raised |-> NoExc, value |-> Hostname(url) \in {"192.168.178.20"}]

\* the acceptable statuses without 401
um_acceptable_only200 == {200}

um_acceptable == {200, 401}

mu_acceptable == {200}

Unreachable(n) ==
    [raised |-> NoExc, reachable |-> FALSE, content |-> None, requests |-> n]

Reachable(text, n) ==
    [raised |-> NoExc, reachable |-> TRUE, content |-> text, requests |-> n]

\* url-monitor.py: `for attempt in range(1, RETRY_COUNT + 1)`; results[i] is
\* the outcome of the i-th requests.get, should the loop come to issue it
RECURSIVE um_attempts(_, _)
um_attempts(results, attempt) ==
    IF attempt > RETRY_COUNT
    THEN Unreachable(RETRY_COUNT)
    ELSE LET response == results[attempt] IN
         IF response.exc = None /\ response.status_code \in um_acceptable
         THEN Reachable(response.text, attempt)
         ELSE um_attempts(results, attempt + 1)

um_check_url(url, results) == um_attempts(results, 1)

\* monitor_urls.py: one request; is_local_ip is called inside the try block,
\* whose except clause names requests.RequestException only
mu_check_url(url, results) ==
    IF is_local_ip(url).raised # NoExc
    THEN [raised |-> is_local_ip(url).raised, reachable |-> FALSE,
          content |-> None, requests |-> 0]
    ELSE LET response == results[1] IN
         IF response.exc = None /\ response.status_code \in mu_acceptable
         THEN Reachable(response.text, 1)
         ELSE Unreachable(1)

check_url(s, url, results) ==
    IF s = UM THEN um_check_url(url, results) ELSE mu_check_url(url, results)

\* verify= argument of requests.get
verify_ssl(s, url) ==
    IF s = UM THEN ~is_internal_ip(url) ELSE ~is_local_ip(url).value

\* the outcomes the network can give to one call of check_url
ProbeResults(s, url) ==
    [1..(IF s = UM THEN RETRY_COUNT ELSE 1) -> AttemptResults(url, verify_ssl(s, url))]

-----------------------------------------------------------------------------
(* keyword_found: the keyword, lower-cased, in the text of the page *)

TextOnly(content) ==
    CASE content = "<b>Online</b>"      -> "online"
      [] content = "<p>maintenance</p>" -> "maintenance"
      [] OTHER                          -> ""

keyword_found(content, keyword) ==
    IF content = None \/ content = "" \/ keyword = None
    THEN FALSE
    ELSE keyword = TextOnly(content)

\* `keyword and reachable and not keyword_found(content, keyword)`
keyword_missing(keyword, reachable, content) ==
    keyword # None /\ reachable /\ ~keyword_found(content, keyword)

-----------------------------------------------------------------------------
(* The debounce transition of one loop iteration of monitor() *)

Min(a, b) == IF a < b THEN a ELSE b

NoIntent == [kind |-> "none", reason |-> None]

\* a down notification that always carries the keyword message
AlertDown_keyword(reachable) ==
    [kind |-> "down", reason |-> "keyword missing"]

\* the message of a down notification tells the two reasons apart
AlertDown(reachable) ==
    [kind |-> "down",
     reason |-> IF ~reachable THEN "unreachable" ELSE "keyword missing"]

AlertUp == [kind |-> "up", reason |-> None]

Raised(e, m) == [raised |-> e, map |-> m, intent |-> NoIntent, prior |-> um_default]

\* url-monitor.py line 147: failure_count += 1
um_count_failure(failure_count) == failure_count + 1

\* line 151 without its test of notified_down
um_down_due_renotify(failure_count, notified_down) ==
    failure_count >= FAILURE_THRESHOLD

\* url-monitor.py line 151
um_down_due(failure_count, notified_down) ==
    failure_count >= FAILURE_THRESHOLD /\ ~notified_down

\* line 160 with > in place of >=
um_up_due_strict(failure_count, notified_up) ==
    failure_count > FAILURE_THRESHOLD /\ ~notified_up

\* url-monitor.py line 160
um_up_due(failure_count, notified_up) ==
    failure_count >= FAILURE_THRESHOLD /\ ~notified_up

\* the failing branch without line 155, which clears notified_up
um_on_failure_keeping_up(e, reachable) ==
    LET failure_count == um_count_failure(e.failures)
        alert == um_down_due(failure_count, e.notified_down)
        e1 == IF alert THEN [e EXCEPT !.notified_down = TRUE] ELSE e
    IN  [entry  |-> [e1 EXCEPT !.failures = failure_count],
         intent |-> IF alert THEN AlertDown(reachable) ELSE NoIntent]

\* url-monitor.py lines 146-157: the failing branch, on the entry of the url
um_on_failure(e, reachable) ==
    LET failure_count == um_count_failure(e.failures)
        alert == um_down_due(failure_count, e.notified_down)
        e1 == IF alert
              THEN [e EXCEPT !.notified_down = TRUE, !.notified_up = FALSE]
              ELSE e
    IN  [entry  |-> [e1 EXCEPT !.failures = failure_count],
         intent |-> IF alert THEN AlertDown(reachable) ELSE NoIntent]

\* the successful branch with both flags cleared when no recovery is due
um_on_success_clearing(e) ==
    LET alert == um_up_due(e.failures, e.notified_up)
        e1 == IF alert
              THEN [e EXCEPT !.notified_up = TRUE, !.notified_down = FALSE]
              ELSE [e EXCEPT !.notified_up = FALSE, !.notified_down = FALSE]
    IN  [entry  |-> [e1 EXCEPT !.failures = 0],
         intent |-> IF alert THEN AlertUp ELSE NoIntent]

\* url-monitor.py lines 159-169: the successful branch
um_on_success(e) ==
    LET alert == um_up_due(e.failures, e.notified_up)
        e1 == IF alert
              THEN [e EXCEPT !.notified_up = TRUE, !.notified_down = FALSE]
              ELSE e
    IN  [entry  |-> [e1 EXCEPT !.failures = 0],
         intent |-> IF alert THEN AlertUp ELSE NoIntent]

\* url-monitor.py lines 139-169, on the dict held by `failures`
um_transition(map, url, reachable, kw_missing) ==
    LET m1 == IF url \in DOMAIN map THEN map ELSE Put(map, url, um_default)
        e  == m1[url]
        r  == IF ~reachable \/ kw_missing
              THEN um_on_failure(e, reachable) ELSE um_on_success(e)
    IN  IF ~({"failures", "notified_down", "notified_up"} \subseteq DOMAIN e)
        THEN Raised(Exc("KeyError", "monitor"), m1)
        ELSE [raised |-> NoExc, map |-> Put(m1, url, r.entry),
              intent |-> r.intent, prior |-> e]

\* monitor_urls.py line 127: capped at the threshold
mu_count_failure(failure_count) == Min(failure_count + 1, FAILURE_THRESHOLD)

\* line 131 without its test of notified
mu_down_due_unflagged(failure_count, notified) ==
    failure_count >= FAILURE_THRESHOLD

\* monitor_urls.py line 131
mu_down_due(failure_count, notified) ==
    failure_count >= FAILURE_THRESHOLD /\ ~notified

\* monitor_urls.py line 139
mu_up_due(failure_count, notified) ==
    failure_count >= FAILURE_THRESHOLD /\ notified

\* monitor_urls.py lines 126-137: the failing branch
mu_on_failure(e, reachable) ==
    LET failure_count == mu_count_failure(e.failures)
        alert == mu_down_due(failure_count, e.notified)
    IN  [entry  |-> mu_entry(failure_count, alert \/ e.notified),
         intent |-> IF alert THEN AlertDown(reachable) ELSE NoIntent]

\* a successful branch that resets the count and leaves the flag as it was
mu_on_success_sticky(e) ==
    [entry  |-> mu_entry(0, e.notified),
     intent |-> IF mu_up_due(e.failures, e.notified) THEN AlertUp ELSE NoIntent]

\* monitor_urls.py lines 138-143: the successful branch
mu_on_success(e) ==
    [entry  |-> mu_entry(0, FALSE),
     intent |-> IF mu_up_due(e.failures, e.notified) THEN AlertUp ELSE NoIntent]

\* monitor_urls.py lines 122-146, on the dict held by `failures`
mu_transition(map, url, reachable, kw_missing) ==
    LET e == IF url \in DOMAIN map THEN map[url] ELSE mu_default
        r == IF ~reachable \/ kw_missing
             THEN mu_on_failure(e, reachable) ELSE mu_on_success(e)
    IN  IF ~({"failures", "notified"} \subseteq DOMAIN e)
        THEN Raised(Exc("KeyError", "monitor"), map)
        ELSE [raised |-> NoExc, map |-> Put(map, url, r.entry),
              intent |-> r.intent, prior |-> e]

\* one iteration of `for entry in urls` after the probe, for either script and
\* for whatever json.load returned
transition(s, store, url, reachable, kw_missing) ==
    IF ~store.isdict
    THEN Raised(Exc(IF s = UM THEN "TypeError" ELSE "AttributeError", "monitor"),
                store.map)
    ELSE IF s = UM
         THEN um_transition(store.map, url, reachable, kw_missing)
         ELSE mu_transition(store.map, url, reachable, kw_missing)

\* notify_discord: requests.post either returns or raises a RequestException,
\* which is caught and logged
notify_discord == {"posted", "RequestException"}

\* notify_discord without its try/except: the RequestException reaches monitor()
notify_discord_uncaught(post) ==
    IF post = "RequestException"
    THEN Exc("RequestException", "notify_discord") ELSE NoExc

\* what notify_discord raises to monitor() for each outcome of requests.post:
\* nothing, the except clause reports the error and returns
notify_discord_raises(post) == NoExc

\* the two scripts before their first cycle, each with an empty store
NoPair ==
    [um |-> EmptyMap, mu |-> EmptyMap, idx |-> 1, stepped |-> FALSE,
     url |-> None, note |-> [um |-> NoIntent, mu |-> NoIntent]]

-----------------------------------------------------------------------------
(* Initial state: no process is running; failures.json is whatever earlier   *)
(* invocations of either script, or damage to the file, have left behind     *)

NoStore == Dict(EmptyMap)

InitFiles ==
    { File("missing", NoStore),
      File("unparsable", NoStore),
      File("unreadable", NoStore),
      File("json", NonDict),
      File("json", Dict(EmptyMap)),
      File("json", Dict(Put(EmptyMap, PUBLIC_URL, um_entry(5, TRUE, FALSE)))),
      File("json", Dict(Put(EmptyMap, PUBLIC_URL, mu_entry(5, TRUE)))),
      File("json", Dict(Put(EmptyMap, STALE_URL, um_entry(2, FALSE, FALSE)))) }

Exit(status, exc) == [status |-> status, exc |-> exc]

NoStep ==
    [idx |-> 0, reachable |-> FALSE, fails |-> FALSE, prior |-> um_default,
     intent |-> NoIntent, post |-> "posted", streak_before |-> 0,
     sent_before |-> "none"]

Zero == [u \in URLS |-> 0]

NoneLost == [u \in URLS |-> "none"]

NoneSent == [u \in URLS |-> "none"]

NoProbe == [url |-> None, results |-> <<>>, out |-> Unreachable(0)]

\* the two overlapping invocations
Procs == {1, 2}

\* neither invocation has started; downs counts, across both, the down
\* notifications since the last successful iteration
NoRace ==
    [pc |-> [q \in Procs |-> "idle"], mem |-> [q \in Procs |-> NoStore],
     idx |-> [q \in Procs |-> 1], downs |-> 0]

Init ==
    /\ script \in Scripts
    /\ urls \in TargetLists
    /\ file \in InitFiles
    /\ failures = NoStore
    /\ pc = "idle"
    /\ idx = 1
    /\ exit = Exit("none", NoExc)
    /\ file0 = file
    /\ last = NoStep
    /\ streak = Zero
    /\ downs = Zero
    /\ ups = Zero
    /\ lost = NoneLost
    /\ sent = NoneSent
    /\ clean = (file.state = "missing" \/ file = File("json", Dict(EmptyMap)))
    /\ probe = NoProbe
    /\ race = NoRace
    /\ pair = NoPair

-----------------------------------------------------------------------------
(* Actions *)

\* the invocation ends with an uncaught exception: nothing further runs
Abort(e) ==
    /\ pc' = "idle"
    /\ exit' = Exit("abnormal", e)
    /\ clean' = FALSE
    /\ streak' = Zero
    /\ downs' = Zero
    /\ ups' = Zero
    /\ lost' = NoneLost
    /\ sent' = NoneSent

\* the scheduler starts the script: `failures = load_failures()` at module
\* level, then monitor() and its `urls = load_urls()`
Start ==
    /\ pc = "idle"
    /\ LET r == load_failures(script, file) IN
       /\ file0' = file
       /\ last' = NoStep
       /\ idx' = 1
       /\ IF r.raised # NoExc
          THEN /\ Abort(r.raised)
               /\ UNCHANGED failures
          ELSE /\ failures' = r.value
               /\ pc' = "loop"
               /\ exit' = Exit("running", NoExc)
               /\ UNCHANGED <<clean, streak, downs, ups, sent, lost>>
    /\ UNCHANGED <<script, urls, file, probe, race, pair>>

\* the failure count stored for url, 0 when there is none
StoredCount(url) ==
    IF failures.isdict /\ url \in DOMAIN failures.map
       /\ "failures" \in DOMAIN failures.map[url]
    THEN failures.map[url].failures ELSE 0

Seen(url) == \E j \in 1..(idx - 1) : urls[j].url = url

\* one iteration of `for entry in urls`: probe, keyword check, transition,
\* notification
ProcessTarget ==
    /\ pc = "loop"
    /\ idx <= Len(urls)
    /\ LET entry == urls[idx]
           url   == entry.url
       IN \E results \in ProbeResults(script, url), post \in notify_discord :
          LET p  == check_url(script, url, results)
              km == keyword_missing(entry.keyword, p.reachable, p.content)
              fails == ~p.reachable \/ km
              t  == transition(script, failures, url, p.reachable, km)
          IN  IF p.raised # NoExc
              THEN /\ Abort(p.raised)
                   /\ UNCHANGED <<failures, idx, last>>
              ELSE IF t.raised # NoExc
              THEN /\ Abort(t.raised)
                   /\ UNCHANGED <<failures, idx, last>>
              ELSE IF t.intent # NoIntent /\ notify_discord_raises(post) # NoExc
              THEN /\ Abort(notify_discord_raises(post))
                   /\ UNCHANGED <<failures, idx, last>>
              ELSE /\ fails => (StoredCount(url) < MaxFailures
                                /\ streak[url] < MaxFailures)
                   /\ failures' = Dict(t.map)
                   /\ idx' = idx + 1
                   /\ last' = [idx |-> idx,
                               reachable |-> p.reachable, fails |-> fails,
                               prior |-> t.prior, intent |-> t.intent,
                               post |-> IF t.intent = NoIntent
                                        THEN "posted" ELSE post,
                               streak_before |-> streak[url],
                               sent_before |-> sent[url]]
                   /\ IF clean
                      THEN /\ streak' = [streak EXCEPT ![url] =
                                    IF fails
                                    THEN (IF Seen(url) THEN @ ELSE @ + 1)
                                    ELSE 0]
                           /\ downs' = [downs EXCEPT ![url] =
                                    IF ~fails THEN 0
                                    ELSE IF t.intent.kind = "down"
                                         THEN Min(@ + 1, MaxNotes) ELSE @]
                           /\ ups' = [ups EXCEPT ![url] =
                                    IF fails THEN 0
                                    ELSE IF t.intent.kind = "up"
                                         THEN Min(@ + 1, MaxNotes) ELSE @]
                           /\ lost' = [lost EXCEPT ![url] =
                                    IF t.intent # NoIntent
                                    THEN (IF post = "RequestException"
                                          THEN t.intent.kind ELSE "none")
                                    ELSE IF (fails /\ @ = "up")
                                            \/ (~fails /\ @ = "down")
                                         THEN "none" ELSE @]
                           /\ sent' = [sent EXCEPT ![url] =
                                    IF t.intent # NoIntent
                                    THEN t.intent.kind ELSE @]
                      ELSE UNCHANGED <<streak, downs, ups, sent, lost>>
                   /\ UNCHANGED <<pc, exit, clean>>
    /\ UNCHANGED <<script, urls, file, file0, probe, race, pair>>

\* how save_failures ends when open() or json.dump raises IOError:
\* url-monitor.py catches and reports it, monitor_urls.py does not
SaveFailed ==
    /\ pc' = "idle"
    /\ exit' = IF script = UM THEN Exit("normal", NoExc)
               ELSE Exit("abnormal", Exc("IOError", "save_failures"))
    /\ clean' = FALSE
    /\ streak' = Zero
    /\ downs' = Zero
    /\ ups' = Zero
    /\ lost' = NoneLost
    /\ sent' = NoneSent

\* save_failures, first half: open(FAILURE_FILE, "w") truncates the file
SaveOpen ==
    /\ pc = "loop"
    /\ idx > Len(urls)
    /\ \/ /\ file' = File("unparsable", NoStore)
          /\ pc' = "dump"
          /\ UNCHANGED <<exit, clean, streak, downs, ups, sent, lost>>
       \/ /\ SaveFailed
          /\ UNCHANGED file
    /\ UNCHANGED <<script, urls, failures, idx, file0, last, probe, race, pair>>

\* save_failures, second half: json.dump writes the mapping, or stops part way
SaveDump ==
    /\ pc = "dump"
    /\ \/ /\ file' = File("json", failures)
          /\ pc' = "idle"
          /\ exit' = Exit("normal", NoExc)
          /\ UNCHANGED <<clean, streak, downs, ups, sent, lost>>
       \/ /\ SaveFailed
          /\ file' = File("unparsable", NoStore)
    /\ UNCHANGED <<script, urls, failures, idx, file0, last, probe, race, pair>>

Next == Start \/ ProcessTarget \/ SaveOpen \/ SaveDump

Spec == Init /\ [][Next]_vars

-----------------------------------------------------------------------------
(* check_url of url-monitor.py on its own: every URL, every pair of           *)
(* responses the two requests could get                                      *)

InitProbe ==
    /\ Init
    /\ script = UM
    /\ urls = <<Entry(PUBLIC_URL, KEYWORD)>>
    /\ file.state = "missing"

CallCheckUrl ==
    /\ \E url \in {PUBLIC_URL, LAN_URL, NOHOST_URL} :
         \E results \in ProbeResults(UM, url) :
            probe' = [url |-> url, results |-> results,
                      out |-> um_check_url(url, results)]
    /\ UNCHANGED <<script, urls, file, failures, pc, idx, exit, file0, last,
                   streak, downs, ups, sent, lost, clean, race, pair>>

NextProbe == CallCheckUrl

SpecProbe == InitProbe /\ [][NextProbe]_vars

-----------------------------------------------------------------------------
(* Two invocations of one script that the scheduler lets overlap: each is    *)
(* the process above (load, loop, open, dump), both on the same              *)
(* failures.json, every step of one interleaved with the steps of the other  *)

InitRace ==
    /\ Init
    /\ script = UM
    /\ urls = <<Entry(PUBLIC_URL, KEYWORD)>>
    /\ file.state = "missing"

RaceFrame ==
    UNCHANGED <<script, urls, failures, pc, idx, exit, file0, last,
                streak, downs, ups, sent, lost, clean, probe, pair>>

\* an invocation that finds the other one running, and waits
start_allowed_exclusive(pcs, q) == \A o \in Procs \ {q} : pcs[o] = "idle"

\* module level and __main__: the script loads the store and calls monitor()
\* without looking for another running invocation
start_allowed(pcs, q) == TRUE

\* `failures = load_failures()` of invocation q
RaceStart(q) ==
    /\ race.pc[q] = "idle"
    /\ start_allowed(race.pc, q)
    /\ load_failures(script, file).raised = NoExc
    /\ race' = [race EXCEPT !.pc[q] = "loop", !.idx[q] = 1,
                            !.mem[q] = load_failures(script, file).value]
    /\ UNCHANGED file
    /\ RaceFrame

\* one iteration of the loop of invocation q
RaceProcess(q) ==
    /\ race.pc[q] = "loop"
    /\ race.idx[q] <= Len(urls)
    /\ LET entry == urls[race.idx[q]]
           url   == entry.url
       IN \E results \in ProbeResults(script, url) :
          LET p  == check_url(script, url, results)
              km == keyword_missing(entry.keyword, p.reachable, p.content)
              fails == ~p.reachable \/ km
              t  == transition(script, race.mem[q], url, p.reachable, km)
          IN  /\ \A i \in DOMAIN results : results[i] = results[1]
              /\ p.raised = NoExc /\ t.raised = NoExc
              /\ (fails /\ url \in DOMAIN race.mem[q].map) =>
                     race.mem[q].map[url].failures < MaxFailures
              /\ race' = [race EXCEPT
                            !.mem[q] = Dict(t.map),
                            !.idx[q] = @ + 1,
                            !.downs = IF ~fails THEN 0
                                      ELSE IF t.intent.kind = "down"
                                           THEN Min(@ + 1, MaxNotes) ELSE @]
    /\ UNCHANGED file
    /\ RaceFrame

\* open(FAILURE_FILE, "w") of invocation q
RaceSaveOpen(q) ==
    /\ race.pc[q] = "loop"
    /\ race.idx[q] > Len(urls)
    /\ file' = File("unparsable", NoStore)
    /\ race' = [race EXCEPT !.pc[q] = "dump"]
    /\ RaceFrame

\* json.dump of invocation q, and the end of its process
RaceSaveDump(q) ==
    /\ race.pc[q] = "dump"
    /\ file' = File("json", race.mem[q])
    /\ race' = [race EXCEPT !.pc[q] = "idle", !.idx[q] = 1, !.mem[q] = NoStore]
    /\ RaceFrame

NextRace ==
    \E q \in Procs :
        RaceStart(q) \/ RaceProcess(q) \/ RaceSaveOpen(q) \/ RaceSaveDump(q)

SpecRace == InitRace /\ [][NextRace]_vars

-----------------------------------------------------------------------------
(* The two scripts side by side: each starts from an empty store and runs    *)
(* one completed cycle after the other over the same target list; in every   *)
(* iteration both are handed the same outcome of the probe                   *)

InitPair ==
    /\ Init
    /\ file.state = "missing"

PairFrame ==
    UNCHANGED <<script, urls, file, failures, pc, idx, exit, file0, last,
                streak, downs, ups, sent, lost, clean, probe, race>>

\* the iteration for urls[pair.idx] in both scripts
PairProcess ==
    /\ pair.idx <= Len(urls)
    /\ LET entry == urls[pair.idx]
           url   == entry.url
       IN \E reachable \in BOOLEAN, text \in Contents :
          LET content == IF reachable THEN text ELSE None
              km == keyword_missing(entry.keyword, reachable, content)
              a  == um_transition(pair.um, url, reachable, km)
              b  == mu_transition(pair.mu, url, reachable, km)
          IN  /\ ~reachable => text = ""
              /\ (~reachable \/ km) => a.prior.failures < MaxFailures
              /\ pair' = [um |-> a.map, mu |-> b.map, idx |-> pair.idx + 1,
                          stepped |-> TRUE, url |-> url,
                          note |-> [um |-> a.intent, mu |-> b.intent]]
    /\ PairFrame

\* both scripts save, end, and are started again on what they saved
PairNextCycle ==
    /\ pair.idx > Len(urls)
    /\ pair' = [pair EXCEPT !.idx = 1]
    /\ PairFrame

NextPair == PairProcess \/ PairNextCycle

SpecPair == InitPair /\ [][NextPair]_vars

-----------------------------------------------------------------------------
(* Vocabulary of the properties *)

\* a loop iteration has completed in the running (or last) invocation
Stepped == last.idx > 0

\* the URL that iteration was about, and its entry in the list
LastEntry == urls[last.idx]

LastUrl == LastEntry.url

\* the state stored for that URL after the iteration
Cur == failures.map[LastUrl]

\* number of entries of the target list with the given URL
Occurrences(url) == Cardinality({j \in 1..Len(urls) : urls[j].url = url})

\* the flag that says "a down notification has been sent", in either encoding
SaysDown(e) ==
    IF "notified_down" \in DOMAIN e THEN e.notified_down ELSE e.notified

\* the entry failures.json held for the url when the invocation started
Persisted(url) ==
    IF file0.state = "json" /\ file0.value.isdict
       /\ url \in DOMAIN file0.value.map
    THEN file0.value.map[url]
    ELSE IF script = UM THEN um_default ELSE mu_default

\* the invocation started from a missing or unparsable failures.json
Unloadable == file0.state \in {"missing", "unparsable"}

\* the entry a store holds for the url: <<entry>>, or <<>> when it holds none
EntryOf(store, url) ==
    IF store.isdict /\ url \in DOMAIN store.map THEN <<store.map[url]>> ELSE <<>>

-----------------------------------------------------------------------------
(* Properties *)

\* C1: from an empty store and with every cycle completing, a target that
\* occurs once in the list gets a down notification in exactly the cycle in
\* which its streak of failing cycles reaches FAILURE_THRESHOLD, and a streak
\* of at least FAILURE_THRESHOLD cycles has produced exactly one, a shorter
\* one none (both scripts).
C1_OneDownPerStreak ==
    clean =>
      /\ \A u \in URLS : Occurrences(u) = 1 =>
            downs[u] = IF streak[u] >= FAILURE_THRESHOLD THEN 1 ELSE 0
      /\ (Stepped /\ Occurrences(LastUrl) = 1) =>
            ((last.intent.kind = "down")
               <=> (last.fails /\ streak[LastUrl] = FAILURE_THRESHOLD))

\* C1 witness: a streak longer than the threshold, one down notification sent,
\* the latest failing cycle silent
C1_Witness ==
    /\ clean /\ Stepped /\ Occurrences(LastUrl) = 1
    /\ last.fails /\ streak[LastUrl] > FAILURE_THRESHOLD
    /\ downs[LastUrl] = 1 /\ last.intent = NoIntent

\* C2: from an empty store and with every cycle completing, a successful cycle
\* of a target that occurs once dispatches an up notification exactly when the
\* persisted state says a down notification was sent; the state it leaves no
\* longer says so, and a run of successful cycles holds at most one up
\* notification (both scripts).
C2_OneUpPerRecovery ==
    (clean /\ Stepped /\ Occurrences(LastUrl) = 1 /\ ~last.fails) =>
      /\ last.prior = Persisted(LastUrl)
      /\ (last.intent.kind = "up") <=> SaysDown(last.prior)
      /\ ~SaysDown(Cur)
      /\ ups[LastUrl] <= 1

\* C2 witness: the first successful cycle after a down notification
C2_Witness ==
    /\ clean /\ Stepped /\ Occurrences(LastUrl) = 1 /\ ~last.fails
    /\ SaysDown(last.prior) /\ last.intent = AlertUp /\ ups[LastUrl] = 1

\* C3 (as claimed): no down notification is dispatched for a URL whose streak
\* of failing cycles is shorter than FAILURE_THRESHOLD, and no up notification
\* after such a streak, for every target list.
C3_NoAlertBelowThreshold ==
    (clean /\ Stepped) =>
      /\ (last.intent.kind = "down") => streak[LastUrl] >= FAILURE_THRESHOLD
      /\ (last.intent.kind = "up") => last.streak_before >= FAILURE_THRESHOLD

\* C4 (as claimed): the failure count url-monitor.py stores never exceeds
\* FAILURE_THRESHOLD, and a successful cycle stores 0.
C4_CountSaturates ==
    (script = UM /\ clean /\ Stepped /\ Occurrences(LastUrl) = 1) =>
      /\ Cur.failures <= FAILURE_THRESHOLD
      /\ ~last.fails => Cur.failures = 0

\* C5 (as claimed): in url-monitor.py a failing cycle on a state with the count
\* at FAILURE_THRESHOLD and notified_down set dispatches nothing and leaves the
\* stored state as it was.
C5_FailingStepIdempotent ==
    (script = UM /\ clean /\ Stepped /\ Occurrences(LastUrl) = 1 /\ last.fails
       /\ last.prior.failures = FAILURE_THRESHOLD /\ last.prior.notified_down) =>
      /\ last.intent = NoIntent
      /\ Cur = last.prior

\* C6 (as claimed): in url-monitor.py a successful cycle on a state whose down
\* flag is false dispatches nothing and leaves {0, false, false}, as after the
\* second ok of 5 x fail, ok, ok.
C6_SuccessClearsFlags ==
    (script = UM /\ clean /\ Stepped /\ Occurrences(LastUrl) = 1
       /\ ~last.fails /\ ~last.prior.notified_down) =>
      /\ last.intent = NoIntent
      /\ Cur = um_entry(0, FALSE, FALSE)

\* C6 (amended): in url-monitor.py a successful cycle on a state whose down
\* flag is false dispatches nothing, stores failures 0 and leaves both flags
\* as they were; on a state whose down flag is true it dispatches the up
\* notification and leaves {0, false, true}.  So 5 x fail, ok, ok gives
\* {0, false, true} after the first ok and again after the second.
C6_SuccessKeepsFlags ==
    (script = UM /\ Stepped /\ ~last.fails) =>
      IF last.prior.notified_down
      THEN last.intent = AlertUp /\ Cur = um_entry(0, FALSE, TRUE)
      ELSE last.intent = NoIntent /\ Cur = [last.prior EXCEPT !.failures = 0]

\* C6 witness: the second ok of 5 x fail, ok, ok
C6_Witness ==
    /\ script = UM /\ clean /\ Stepped /\ ~last.fails
    /\ last.prior = um_entry(0, FALSE, TRUE)
    /\ last.intent = NoIntent
    /\ Cur = um_entry(0, FALSE, TRUE)

\* C7 (as claimed): after an invocation that ended abnormally failures.json
\* holds exactly what it held when the invocation started.
C7_AbortKeepsStore ==
    exit.status = "abnormal" => file = file0

\* C8 (as claimed): no failure of the probe or of the notification of one
\* target ends the invocation; the later targets are still processed.
C8_ProbeFailureNeverAborts ==
    ~(/\ exit.status = "abnormal"
      /\ exit.exc.where \in {"is_local_ip", "check_url", "notify_discord"}
      /\ idx <= Len(urls))

\* C9 (as claimed): no invocation of url-monitor.py ends abnormally, whatever
\* failures.json holds.
C9_AlwaysCompletes ==
    script = UM => exit.status # "abnormal"

\* C10: when failures.json is missing or unparsable, load_failures raises
\* nothing and returns the empty mapping, and the cycle that follows finds
\* every target in the first-observed state (both scripts).
C10_LoadNeverFails ==
    Unloadable =>
      /\ exit.exc.where # "load_failures"
      /\ (pc = "loop" /\ ~Stepped) => failures = Dict(EmptyMap)
      /\ (Stepped /\ \A j \in 1..(last.idx - 1) : urls[j].url # LastUrl) =>
            last.prior = (IF script = UM THEN um_default ELSE mu_default)

\* C10 witness: a cycle on an unparsable failures.json has processed a target
C10_Witness ==
    /\ file0.state = "unparsable" /\ Stepped
    /\ exit.status = "running"
    /\ last.prior \in {um_default, mu_default}

\* C11: a webhook call that fails is absorbed by notify_discord; the cycle
\* stores the state of a sent notification (down flag set after a down
\* notification, count 0 and down flag clear after an up notification), and
\* while the streak (or the recovery) lasts the notification whose call failed
\* stays the only one dispatched.
C11_FailedPostKeepsTransition ==
    /\ exit.exc.where # "notify_discord"
    /\ (Stepped /\ last.intent.kind = "down") =>
          (SaysDown(Cur) /\ Cur.failures >= FAILURE_THRESHOLD)
    /\ (Stepped /\ last.intent.kind = "up") =>
          (~SaysDown(Cur) /\ Cur.failures = 0)
    /\ clean => \A u \in URLS :
          /\ lost[u] = "down" => downs[u] = 1
          /\ lost[u] = "up" => ups[u] = 1

\* C11 witness: the down notification of the streak failed at the webhook and
\* a later failing cycle of the streak has dispatched nothing
C11_Witness ==
    /\ clean /\ Stepped /\ last.fails /\ last.intent = NoIntent
    /\ lost[LastUrl] = "down" /\ downs[LastUrl] = 1
    /\ streak[LastUrl] > FAILURE_THRESHOLD
    /\ SaysDown(Cur)

\* C12: check_url of url-monitor.py issues between 1 and RETRY_COUNT requests;
\* every request before the last one issued failed (it raised, or its status
\* was not 200 or 401); the call returns (True, body of the last request) when
\* that request was answered 200 or 401, and (False, None) exactly when all
\* RETRY_COUNT requests failed.
C12_RetryLoop ==
    probe.url # None =>
      LET r   == probe.results
          out == probe.out
          Accepted(i) == r[i].exc = None /\ r[i].status_code \in {200, 401}
      IN  /\ out.raised = NoExc
          /\ out.requests \in 1..RETRY_COUNT
          /\ \A i \in 1..(out.requests - 1) : ~Accepted(i)
          /\ out.reachable <=> Accepted(out.requests)
          /\ out.reachable => out.content = r[out.requests].text
          /\ ~out.reachable <=> (\A i \in 1..RETRY_COUNT : ~Accepted(i))
          /\ ~out.reachable => (out.content = None /\ out.requests = RETRY_COUNT)

\* C12 witness: the first request timed out, the second was answered 401 and
\* ended the call with (True, body)
C12_Witness ==
    /\ probe.url = PUBLIC_URL
    /\ probe.results[1].exc = "Timeout"
    /\ probe.results[2].status_code = 401
    /\ probe.out.reachable /\ probe.out.requests = 2
    /\ probe.out.content = probe.results[2].text

\* C13: load_failures hands monitor() the mapping failures.json holds, an
\* iteration of the loop changes no entry but that of its own URL (entries of
\* other URLs, in the list or stale, are neither changed nor removed), and
\* save_failures writes the whole mapping back; so stale entries return to
\* failures.json unchanged (both scripts).
C13_OnlyListedEntriesChange ==
    [][ /\ (pc = "idle" /\ pc' = "loop" /\ file.state = "json")
             => failures' = file.value
        /\ (pc = "loop" /\ idx' = idx + 1)
             => \A u \in URLS \ {urls[idx].url} :
                   EntryOf(failures', u) = EntryOf(failures, u)
        /\ (pc = "dump" /\ file'.state = "json")
             => file'.value = failures ]_vars

\* C13 witness: an invocation has saved; failures.json holds the entry of the
\* listed URL and, as before, the entry of a URL that is not in the list
C13_Witness ==
    /\ exit.status = "normal" /\ file.state = "json"
    /\ \A j \in 1..Len(urls) : urls[j].url # STALE_URL
    /\ EntryOf(file0.value, STALE_URL) = <<um_entry(2, FALSE, FALSE)>>
    /\ EntryOf(file.value, STALE_URL) = <<um_entry(2, FALSE, FALSE)>>
    /\ EntryOf(file.value, PUBLIC_URL) # <<>>

\* C14: nothing in the scripts keeps an invocation from starting while the
\* other is between its load and its save: an invocation that has not
\* started can load failures.json wherever the other one stands.
C14_NoMutualExclusion ==
    \A q \in Procs : race.pc[q] = "idle" => ENABLED RaceStart(q)

\* C14 witness: both invocations loaded the count of 4 that is still in
\* failures.json and both saw the target fail: two down notifications went
\* out in one streak, and both are about to save a count of 5, so that one
\* of the two failing cycles is missing from the count whoever saves last
C14_Witness ==
    /\ file.state = "json"
    /\ EntryOf(file.value, PUBLIC_URL)
          = <<um_entry(FAILURE_THRESHOLD - 1, FALSE, FALSE)>>
    /\ \A q \in Procs :
          /\ race.pc[q] = "loop" /\ race.idx[q] > Len(urls)
          /\ EntryOf(race.mem[q], PUBLIC_URL)
                = <<um_entry(FAILURE_THRESHOLD, TRUE, FALSE)>>
    /\ race.downs = 2

\* C15: run side by side from an empty store over the same target list and
\* the same outcomes, the two scripts dispatch the same notification in every
\* iteration (down with the same reason, up, or none), and after it
\* monitor_urls.py's notified equals url-monitor.py's notified_down for every
\* URL either store holds.
C15_SameNotifications ==
    /\ pair.note.mu = pair.note.um
    /\ DOMAIN pair.mu = DOMAIN pair.um
    /\ \A u \in DOMAIN pair.um : pair.mu[u].notified = pair.um[u].notified_down

\* C15 witness: after a down notification a successful iteration makes both
\* scripts dispatch the up notification and clear their flag
C15_Witness ==
    /\ pair.stepped
    /\ pair.note.um = AlertUp /\ pair.note.mu = AlertUp
    /\ pair.um[pair.url] = um_entry(0, FALSE, TRUE)
    /\ pair.mu[pair.url] = mu_entry(0, FALSE)

\* C16 (as claimed): in a cycle the state of a target is changed by one
\* iteration only, for every target list, so that its failure count never
\* runs ahead of the number of consecutive failing cycles.
C16_OneTransitionPerCycle ==
    (clean /\ Stepped) =>
      /\ \A j \in 1..(last.idx - 1) : urls[j].url # LastUrl
      /\ last.fails => Cur.failures <= streak[LastUrl]

\* C17: in url-monitor.py, from an empty store and with every cycle
\* completing, no entry in memory or in failures.json has notified_down and
\* notified_up both true, and notified_down is true exactly when the
\* notification dispatched last for the URL is a down notification.
C17_FlagsExclusive ==
    (script = UM /\ clean) =>
      /\ \A u \in DOMAIN failures.map :
            /\ ~(failures.map[u].notified_down /\ failures.map[u].notified_up)
            /\ failures.map[u].notified_down <=> sent[u] = "down"
      /\ (pc = "idle" /\ file.state = "json") =>
            \A u \in DOMAIN file.value.map :
               /\ ~(file.value.map[u].notified_down /\ file.value.map[u].notified_up)
               /\ file.value.map[u].notified_down <=> sent[u] = "down"

\* C17 witness: a down and then an up notification went out; the saved entry
\* has notified_down false and notified_up true
C17_Witness ==
    /\ script = UM /\ clean /\ pc = "idle" /\ file.state = "json"
    /\ sent[PUBLIC_URL] = "up"
    /\ EntryOf(file.value, PUBLIC_URL) = <<um_entry(0, FALSE, TRUE)>>

\* C18: in both scripts a down notification says "unreachable" exactly when
\* the probe of the iteration that dispatches it failed, and "keyword missing"
\* exactly when that probe succeeded; for an unreachable probe keyword_missing
\* is false whatever the keyword and the content; and a target without a
\* keyword fails exactly when it is unreachable.
C18_ReasonFromThisCycle ==
    Stepped =>
      /\ (last.intent.kind = "down") =>
            /\ last.fails
            /\ last.intent.reason = "unreachable" <=> ~last.reachable
            /\ last.intent.reason = "keyword missing" <=>
                  (last.reachable /\ LastEntry.keyword # None)
      /\ ~last.reachable =>
            \A c \in Contents \cup {None} :
               ~keyword_missing(LastEntry.keyword, last.reachable, c)
      /\ (LastEntry.keyword = None) => (last.fails <=> ~last.reachable)

\* C18 witness: with a count of 4 stored, the iteration that reaches the
\* threshold finds the page up without its keyword, and the notification
\* says "keyword missing"
C18_Witness ==
    /\ clean /\ Stepped /\ Occurrences(LastUrl) = 1
    /\ last.reachable /\ last.fails /\ LastEntry.keyword = KEYWORD
    /\ last.prior.failures = FAILURE_THRESHOLD - 1
    /\ last.intent = AlertDown(TRUE)
    /\ last.intent.reason = "keyword missing"

\* C19: in url-monitor.py, from an empty store and with every cycle
\* completing, every entry in memory after an iteration and every saved entry
\* has notified_down true exactly when its failures are at least
\* FAILURE_THRESHOLD, and notified_up false whenever they are.
C19_FlagFollowsCount ==
    (script = UM /\ clean) =>
      /\ \A u \in DOMAIN failures.map :
            /\ failures.map[u].notified_down
                  <=> failures.map[u].failures >= FAILURE_THRESHOLD
            /\ failures.map[u].failures >= FAILURE_THRESHOLD
                  => ~failures.map[u].notified_up
      /\ (pc = "idle" /\ file.state = "json") =>
            \A u \in DOMAIN file.value.map :
               /\ file.value.map[u].notified_down
                     <=> file.value.map[u].failures >= FAILURE_THRESHOLD
               /\ file.value.map[u].failures >= FAILURE_THRESHOLD
                     => ~file.value.map[u].notified_up

\* C19 witness: a target that keeps failing beyond the threshold: after the
\* sixth failing cycle the saved entry holds 6 failures with notified_down
\* true and notified_up false
C19_Witness ==
    /\ script = UM /\ clean /\ pc = "idle" /\ file.state = "json"
    /\ last.sent_before = "down" /\ last.intent = NoIntent
    /\ EntryOf(file.value, PUBLIC_URL)
          = <<um_entry(FAILURE_THRESHOLD + 1, TRUE, FALSE)>>

\* C20: in both scripts, from an empty store and with every cycle completing,
\* the notifications dispatched for a URL alternate, beginning with a down
\* notification: a down notification is the first for its URL or follows an
\* up notification, and an up notification follows a down notification.
C20_NotificationsAlternate ==
    (clean /\ Stepped) =>
      /\ (last.intent.kind = "down") => last.sent_before \in {"none", "up"}
      /\ (last.intent.kind = "up") => last.sent_before = "down"
      /\ (last.intent # NoIntent) => sent[LastUrl] = last.intent.kind

\* C20 witness: monitor_urls.py dispatches the second down notification for a
\* URL, after a down and an up notification
C20_Witness ==
    /\ script = MU /\ clean /\ Stepped
    /\ last.intent.kind = "down" /\ last.sent_before = "up"
    /\ sent[LastUrl] = "down"

====
